---- MODULE Spec2Model ----
(***************************************************************************)
(* A model of the graph engine (radicle-dag, Dag<K, V>) and of the causal  *)
(* history built on it (radicle-cob, History).                              *)
(*                                                                         *)
(* Five specifications share the variables:                                *)
(*   SpecDag    two Dags under arbitrary node / dependency / merge calls,  *)
(*              absent and re-inserted keys included;                      *)
(*   SpecGrow   two Dags grown from a shared root, every node inserted     *)
(*              once, together with its edges to nodes already present;    *)
(*   SpecHist   two replicas of one History under extend and merge;        *)
(*   SpecTrio   three replicas of one History under extend and merge;      *)
(*   SpecSettle three replicas, which at some point stop extending and go  *)
(*              on merging.                                                *)
(***************************************************************************)
EXTENDS Integers, Sequences, FiniteSets, TLC

VARIABLES
    dags,    \* SpecDag, SpecGrow: DagIds -> Dag
    calls,   \* SpecDag, SpecGrow: DagIds -> the <<from, to>> of every dependency call made
    hist,    \* SpecHist, SpecTrio, SpecSettle: Replicas -> History
    phase,   \* SpecSettle: "extend" while replicas still extend, then "settle"
    merged,  \* SpecSettle: Replicas -> replicas whose history was merged since extends stopped
    last,    \* the last operation, its inputs and what it read before acting
    ops      \* number of operations performed

vars == <<dags, calls, hist, phase, merged, last, ops>>

----------------------------------------------------------------------------
(* Bounds *)

\* Operations performed in a behaviour of SpecDag.
MaxOps == 4
\* Nodes added to the two Dags of SpecGrow together.
MaxGrown == 4
\* Entry ids of SpecHist are 0 .. MaxId, id 0 the root entry.
MaxId == 4
\* Entry ids of SpecTrio are 0 .. MaxTrioId.
MaxTrioId == 3
\* Entry ids of SpecSettle are 0 .. MaxSettleId.
MaxSettleId == 2
\* Extend calls of SpecOwn that give an id the other replica holds to a new entry.
MaxReused == 3

\* Keys of SpecDag.
Keys == {0, 1, 2}
\* Keys of SpecGrow, key 0 the shared root.
GrowKeys == {0, 1, 2, 3}
Ids == 0 .. MaxId
TrioIds == 0 .. MaxTrioId
SettleIds == 0 .. MaxSettleId
\* Entry ids of SpecOwn, id 0 the root entry.
OwnIds == {0, 1, 2, 3, 4}
DagIds == {1, 2}
Replicas == {1, 2, 3}
\* The replicas that act in SpecHist; the third keeps the root history.
Pair == {1, 2}
\* Node values (V is arbitrary in the source, and no operation of Dag reads a
\* value): the callers of Dag i store Values[i], so that a value tells which Dag
\* a node was inserted into.
Values == <<"x", "y">>

----------------------------------------------------------------------------
(* BTreeSet / BTreeMap / Vec helpers *)

Min(S) == CHOOSE x \in S : \A y \in S : x <= y

\* Iteration order of a BTreeSet: ascending.
RECURSIVE Ascending(_)
Ascending(S) == IF S = {} THEN <<>> ELSE <<Min(S)>> \o Ascending(S \ {Min(S)})

Range(s) == {s[i] : i \in 1 .. Len(s)}

\* The sequences that list every element of S once.
RECURSIVE Perms(_)
Perms(S) ==
    IF S = {} THEN {<<>>}
    ELSE UNION {{<<x>> \o p : p \in Perms(S \ {x})} : x \in S}

\* Position of x in the sequence s, 0 when absent.
IndexOf(s, x) == IF x \in Range(s) THEN Min({i \in 1 .. Len(s) : s[i] = x}) ELSE 0

EmptyMap == [k \in {} |-> 0]

\* BTreeMap::insert
Put(g, key, n) == [k \in DOMAIN g \cup {key} |-> IF k = key THEN n ELSE g[k]]

\* BTreeMap::remove
Remove(g, key) == [k \in DOMAIN g \ {key} |-> g[k]]

----------------------------------------------------------------------------
(* radicle-dag: Node and Dag *)

NewNode(value) == [value |-> value, dependencies |-> {}, dependents |-> {}]

DagNew == [graph |-> EmptyMap, tips |-> {}, roots |-> {}]

DagRoot(key, value) ==
    [graph |-> Put(EmptyMap, key, NewNode(value)), tips |-> {key}, roots |-> {key}]

Contains(d, key) == key \in DOMAIN d.graph

\* What Dag::node returns: the Node the key had, None without one.
None == [none |-> TRUE]
DagNodeReturn(d, key) == IF key \in DOMAIN d.graph THEN d.graph[key] ELSE None

\* A node() that keeps the edges of a node it replaces.
DagNodeKeepEdges(d, key, value) ==
    [graph |-> Put(d.graph, key,
                   IF key \in DOMAIN d.graph
                   THEN [d.graph[key] EXCEPT !.value = value]
                   ELSE NewNode(value)),
     tips  |-> d.tips \cup {key},
     roots |-> d.roots \cup {key}]

DagNode(d, key, value) ==
    [graph |-> Put(d.graph, key, NewNode(value)),
     tips  |-> d.tips \cup {key},
     roots |-> d.roots \cup {key}]

\* First half of Dag::dependency: the `from` side.
DepFrom(d, from, to) ==
    IF from \in DOMAIN d.graph
    THEN [d EXCEPT !.graph[from].dependencies = @ \cup {to}, !.roots = @ \ {from}]
    ELSE d

\* Second half of Dag::dependency: the `to` side.
DepTo(d, from, to) ==
    IF to \in DOMAIN d.graph
    THEN [d EXCEPT !.graph[to].dependents = @ \cup {from}, !.tips = @ \ {to}]
    ELSE d

\* A dependency that records the edge on `to` but leaves `to` among the tips.
DagDependencyKeepTip(d, from, to) ==
    LET e == DepFrom(d, from, to) IN
    IF to \in DOMAIN e.graph
    THEN [e EXCEPT !.graph[to].dependents = @ \cup {from}]
    ELSE e

\* A dependency that records the edge on `from` only.
DagDependencyFromOnly(d, from, to) == DepFrom(d, from, to)

\* A dependency that does nothing unless both keys are nodes of the graph.
DagDependencyBothOrNothing(d, from, to) ==
    IF from \in DOMAIN d.graph /\ to \in DOMAIN d.graph
    THEN DepTo(DepFrom(d, from, to), from, to)
    ELSE d

\* A dependency that takes the edge away when `from` records it already.
DagDependencyToggle(d, from, to) ==
    IF from \in DOMAIN d.graph /\ to \in d.graph[from].dependencies
    THEN [d EXCEPT !.graph[from].dependencies = @ \ {to}]
    ELSE DepTo(DepFrom(d, from, to), from, to)

DagDependency(d, from, to) == DepTo(DepFrom(d, from, to), from, to)

\* Dag::get: the Node of the key, None without one.
Get(d, key) == IF key \in DOMAIN d.graph THEN d.graph[key] ELSE None

\* The outcome of a call that panics: no value is returned.
Panic(message) == [panic |-> message]

\* An index that hands out a Node without edges for a key the graph lacks.
IndexOrDefault(d, key) ==
    IF Get(d, key) = None THEN NewNode("x") ELSE Get(d, key)

\* impl Index<&K> for Dag: self.get(key).unwrap_or_else(|| panic!(..))
Index(d, key) ==
    IF Get(d, key) = None THEN Panic("Dag::index: node not found in graph")
    ELSE Get(d, key)

HasDependency(d, from, to) ==
    IF from \in DOMAIN d.graph THEN to \in d.graph[from].dependencies ELSE FALSE

\* Keys yielded by Dag::roots() and Dag::tips(), in iteration order.
RootKeys(d) == Ascending({k \in d.roots : k \in DOMAIN d.graph})
TipKeys(d) == Ascending({k \in d.tips : k \in DOMAIN d.graph})

\* for k in ks { d.dependency(k, to) }
RECURSIVE DependencyFromEach(_, _, _)
DependencyFromEach(d, ks, to) ==
    IF ks = <<>> THEN d
    ELSE DependencyFromEach(DagDependency(d, Head(ks), to), Tail(ks), to)

\* for k in ks { d.dependency(from, k) }
RECURSIVE DependencyToEach(_, _, _)
DependencyToEach(d, from, ks) ==
    IF ks = <<>> THEN d
    ELSE DependencyToEach(DagDependency(d, from, Head(ks)), from, Tail(ks))

\* A merge body that leaves a node self already contains as it is.
MergeNodeOnlyNew(self, next, node) ==
    IF Contains(self, next) THEN self
    ELSE LET s1 == DagNode(self, next, node.value)
             s2 == DependencyFromEach(s1, Ascending(node.dependents), next)
         IN  DependencyToEach(s2, next, Ascending(node.dependencies))

\* A merge body that issues the edges before it inserts the node.
MergeNodeEdgesFirst(self, next, node) ==
    LET s1 == DependencyFromEach(self, Ascending(node.dependents), next)
        s2 == DependencyToEach(s1, next, Ascending(node.dependencies))
    IN  IF ~Contains(self, next) THEN DagNode(s2, next, node.value) ELSE s2

\* A merge body that inserts the node even when self contains it.
MergeNodeAlwaysInsert(self, next, node) ==
    LET s1 == DagNode(self, next, node.value)
        s2 == DependencyFromEach(s1, Ascending(node.dependents), next)
    IN  DependencyToEach(s2, next, Ascending(node.dependencies))

\* A merge body that does not re-issue the node's dependencies.
MergeNodeNoDependencies(self, next, node) ==
    LET s1 == IF ~Contains(self, next) THEN DagNode(self, next, node.value) ELSE self
    IN  DependencyFromEach(s1, Ascending(node.dependents), next)

\* A merge body that takes other's value for a node self already contains.
MergeNodeTakeValue(self, next, node) ==
    LET s1 == IF ~Contains(self, next) THEN DagNode(self, next, node.value)
              ELSE [self EXCEPT !.graph[next].value = node.value]
        s2 == DependencyFromEach(s1, Ascending(node.dependents), next)
    IN  DependencyToEach(s2, next, Ascending(node.dependencies))

\* A merge body that leaves every tip of self a tip.
MergeNodeKeepTips(self, next, node) ==
    LET s1 == IF ~Contains(self, next) THEN DagNode(self, next, node.value) ELSE self
        s2 == DependencyFromEach(s1, Ascending(node.dependents), next)
        s3 == DependencyToEach(s2, next, Ascending(node.dependencies))
    IN  [s3 EXCEPT !.tips = @ \cup self.tips]

\* Body of the merge loop for a key found in other.graph.
MergeNode(self, next, node) ==
    LET s1 == IF ~Contains(self, next) THEN DagNode(self, next, node.value) ELSE self
        s2 == DependencyFromEach(s1, Ascending(node.dependents), next)
    IN  DependencyToEach(s2, next, Ascending(node.dependencies))

\* The while loop of Dag::merge; og is other.graph.
RECURSIVE MergeLoop(_, _, _, _)
\* A merge loop that does not enqueue the dependents of the node it imported.
MergeLoopNoDescend(self, og, visited, queue) ==
    IF queue = <<>> THEN self
    ELSE LET next == Head(queue) IN
         IF next \in visited THEN MergeLoop(self, og, visited, Tail(queue))
         ELSE IF next \in DOMAIN og
              THEN MergeLoop(MergeNode(self, next, og[next]),
                             Remove(og, next),
                             visited \cup {next},
                             Tail(queue))
              ELSE MergeLoop(self, og, visited \cup {next}, Tail(queue))

MergeLoop(self, og, visited, queue) ==
    IF queue = <<>> THEN self
    ELSE LET next == Head(queue) IN
         IF next \in visited THEN MergeLoop(self, og, visited, Tail(queue))
         ELSE IF next \in DOMAIN og
              THEN MergeLoop(MergeNode(self, next, og[next]),
                             Remove(og, next),
                             visited \cup {next},
                             Tail(queue) \o Ascending(og[next].dependents))
              ELSE MergeLoop(self, og, visited \cup {next}, Tail(queue))

\* A merge that walks other from every one of its roots.
DagMergeAllRoots(self, other) ==
    IF RootKeys(other) = <<>> THEN self
    ELSE MergeLoop(self, other.graph, {}, RootKeys(other))

DagMerge(self, other) ==
    IF RootKeys(other) = <<>> THEN self
    ELSE MergeLoop(self, other.graph, {}, <<Head(RootKeys(other))>>)

\* Dag::visit; st is [visited, order].
RECURSIVE Visit(_, _, _)
RECURSIVE VisitEach(_, _, _)
\* A visit that emits the key before its dependencies.
VisitPreOrder(d, key, st) ==
    IF key \in st.visited THEN st
    ELSE LET s1 == [st EXCEPT !.visited = @ \cup {key}, !.order = Append(@, key)]
         IN  IF key \in DOMAIN d.graph
             THEN VisitEach(d, Ascending(d.graph[key].dependencies), s1)
             ELSE s1

\* A visit that emits no key that is absent from the graph.
VisitSkipsAbsent(d, key, st) ==
    IF key \in st.visited THEN st
    ELSE LET s1 == [st EXCEPT !.visited = @ \cup {key}]
         IN  IF key \in DOMAIN d.graph
             THEN [VisitEach(d, Ascending(d.graph[key].dependencies), s1)
                      EXCEPT !.order = Append(@, key)]
             ELSE s1

Visit(d, key, st) ==
    IF key \in st.visited THEN st
    ELSE LET s1 == [st EXCEPT !.visited = @ \cup {key}]
             s2 == IF key \in DOMAIN d.graph
                   THEN VisitEach(d, Ascending(d.graph[key].dependencies), s1)
                   ELSE s1
         IN  [s2 EXCEPT !.order = Append(@, key)]

\* for key in keys { self.visit(key, visited, order) }
VisitEach(d, keys, st) ==
    IF keys = <<>> THEN st
    ELSE VisitEach(d, Tail(keys), Visit(d, Head(keys), st))

\* A sorted() that starts its visits at the tips only.
SortedFromTips(d, keys) ==
    VisitEach(d, SelectSeq(keys, LAMBDA k : k \in d.tips),
              [visited |-> {}, order |-> <<>>]).order

\* A sorted() that returns the keys as keys.sort_by(compare) left them.
SortedAsGiven(d, keys) == keys

\* A sorted() that visits the keys in ascending order, whatever compare says.
SortedIgnoresCompare(d, keys) ==
    VisitEach(d, Ascending(DOMAIN d.graph), [visited |-> {}, order |-> <<>>]).order

\* Dag::sorted, given the keys as keys.sort_by(compare) left them.
Sorted(d, keys) == VisitEach(d, keys, [visited |-> {}, order |-> <<>>]).order

\* What keys.sort_by(compare) can leave, over every comparison function.
KeyOrders(d) == Perms(DOMAIN d.graph)

\* The while loop of Dag::descendants_of.
RECURSIVE DescendantsLoop(_, _, _, _)
\* A descendants loop that also lists the keys that are not in the graph.
DescendantsLoopListsAbsent(d, stack, visited, nodes) ==
    IF stack = <<>> THEN nodes
    ELSE LET key == Head(stack) IN
         IF key \notin visited
         THEN DescendantsLoop(d,
                              Tail(stack) \o (IF key \in DOMAIN d.graph
                                              THEN Ascending(d.graph[key].dependents)
                                              ELSE <<>>),
                              visited \cup {key}, Append(nodes, key))
         ELSE DescendantsLoop(d, Tail(stack), visited, nodes)
DescendantsLoop(d, stack, visited, nodes) ==
    IF stack = <<>> THEN nodes
    ELSE LET key == Head(stack) IN
         IF key \in DOMAIN d.graph /\ key \notin visited
         THEN DescendantsLoop(d, Tail(stack) \o Ascending(d.graph[key].dependents),
                              visited \cup {key}, Append(nodes, key))
         ELSE DescendantsLoop(d, Tail(stack), visited, nodes)

DescendantsOf(d, node) == DescendantsLoop(d, Ascending(node.dependents), {}, <<>>)

\* <<k, depth + 1>> for each k of ks.
WithDepth(ks, depth) == [i \in 1 .. Len(ks) |-> <<ks[i], depth>>]

\* The while loop of Dag::fold. The filter returns Break on the keys of reject
\* and Continue on the others (it is called at most once per key, so a set of
\* keys describes any filter); acc lists the filter's calls in order.
RECURSIVE FoldLoop(_, _, _, _, _)
\* A fold loop that on Break leaves the dependents of the node unqueued, and
\* marks none of its descendants visited.
FoldLoopBreakOwnOnly(d, reject, visited, queue, acc) ==
    IF queue = <<>> THEN acc
    ELSE LET next == Head(queue)[1]
             depth == Head(queue)[2]
         IN
         IF next \in visited THEN FoldLoop(d, reject, visited, Tail(queue), acc)
         ELSE IF next \in DOMAIN d.graph
              THEN IF next \notin reject
                   THEN FoldLoop(d, reject, visited \cup {next},
                                 Tail(queue) \o WithDepth(Ascending(d.graph[next].dependents),
                                                          depth + 1),
                                 Append(acc, [key |-> next, depth |-> depth, accept |-> TRUE]))
                   ELSE FoldLoop(d, reject, visited \cup {next}, Tail(queue),
                                 Append(acc, [key |-> next, depth |-> depth, accept |-> FALSE]))
              ELSE FoldLoop(d, reject, visited \cup {next}, Tail(queue), acc)
\* A fold loop that puts the dependents of a node at the front of the queue.
FoldLoopDepthFirst(d, reject, visited, queue, acc) ==
    IF queue = <<>> THEN acc
    ELSE LET next == Head(queue)[1]
             depth == Head(queue)[2]
         IN
         IF next \in visited THEN FoldLoop(d, reject, visited, Tail(queue), acc)
         ELSE IF next \in DOMAIN d.graph
              THEN IF next \notin reject
                   THEN FoldLoop(d, reject, visited \cup {next},
                                 WithDepth(Ascending(d.graph[next].dependents), depth + 1)
                                     \o Tail(queue),
                                 Append(acc, [key |-> next, depth |-> depth, accept |-> TRUE]))
                   ELSE FoldLoop(d, reject,
                                 visited \cup {next}
                                         \cup Range(DescendantsOf(d, d.graph[next])),
                                 Tail(queue),
                                 Append(acc, [key |-> next, depth |-> depth, accept |-> FALSE]))
              ELSE FoldLoop(d, reject, visited \cup {next}, Tail(queue), acc)
\* A fold loop that calls the filter also on keys absent from the graph, and
\* goes on past them.
FoldLoopCallsAbsent(d, reject, visited, queue, acc) ==
    IF queue = <<>> THEN acc
    ELSE LET next == Head(queue)[1]
             depth == Head(queue)[2]
         IN
         IF next \in visited THEN FoldLoop(d, reject, visited, Tail(queue), acc)
         ELSE IF next \in DOMAIN d.graph
              THEN IF next \notin reject
                   THEN FoldLoop(d, reject, visited \cup {next},
                                 Tail(queue) \o WithDepth(Ascending(d.graph[next].dependents),
                                                          depth + 1),
                                 Append(acc, [key |-> next, depth |-> depth, accept |-> TRUE]))
                   ELSE FoldLoop(d, reject,
                                 visited \cup {next}
                                         \cup Range(DescendantsOf(d, d.graph[next])),
                                 Tail(queue),
                                 Append(acc, [key |-> next, depth |-> depth, accept |-> FALSE]))
              ELSE FoldLoop(d, reject, visited \cup {next}, Tail(queue),
                            Append(acc, [key |-> next, depth |-> depth, accept |-> TRUE]))

FoldLoop(d, reject, visited, queue, acc) ==
    IF queue = <<>> THEN acc
    ELSE LET next == Head(queue)[1]
             depth == Head(queue)[2]
         IN
         IF next \in visited THEN FoldLoop(d, reject, visited, Tail(queue), acc)
         ELSE IF next \in DOMAIN d.graph
              THEN IF next \notin reject
                   THEN FoldLoop(d, reject, visited \cup {next},
                                 Tail(queue) \o WithDepth(Ascending(d.graph[next].dependents),
                                                          depth + 1),
                                 Append(acc, [key |-> next, depth |-> depth, accept |-> TRUE]))
                   ELSE FoldLoop(d, reject,
                                 visited \cup {next}
                                         \cup Range(DescendantsOf(d, d.graph[next])),
                                 Tail(queue),
                                 Append(acc, [key |-> next, depth |-> depth, accept |-> FALSE]))
              ELSE FoldLoop(d, reject, visited \cup {next}, Tail(queue), acc)

Fold(d, root, reject) == FoldLoop(d, reject, {}, <<<<root, 0>>>>, <<>>)

\* for key in keys { d.node(key, value) }
RECURSIVE NodeEach(_, _, _)
NodeEach(d, keys, value) ==
    IF keys = <<>> THEN d ELSE NodeEach(DagNode(d, Head(keys), value), Tail(keys), value)

\* for (from, to) in edges { d.dependency(from, to) }
RECURSIVE DependencyEach(_, _)
DependencyEach(d, edges) ==
    IF edges = <<>> THEN d
    ELSE DependencyEach(DagDependency(d, Head(edges)[1], Head(edges)[2]), Tail(edges))

\* The Dag of tests::test_complex.
\* tests::test_dependencies: node(0), node(1), dependency(0, 1)
TestDependencies == DagDependency(DagNode(DagNode(DagNew, 0, "x"), 1, "x"), 0, 1)

\* tests::test_fold_reject, with A1 = 0, A2 = 1, B1 = 2, C1 = 3, D1 = 4, R = 5,
\* which orders the keys as the strings are ordered.
TestFoldReject ==
    DependencyEach(NodeEach(DagNew, <<5, 0, 1, 2, 3, 4>>, "x"),
                   << <<0, 5>>, <<1, 5>>, <<2, 0>>, <<3, 2>>, <<4, 3>>, <<4, 1>> >>)

TestComplex ==
    DependencyEach(NodeEach(DagNew, <<0, 1, 2, 3, 4, 5>>, "x"),
                   << <<3, 2>>, <<1, 3>>, <<2, 5>>, <<0, 5>>, <<0, 4>>, <<1, 4>> >>)

----------------------------------------------------------------------------
(* radicle-cob: Entry and History *)

\* An Entry; actor, resource, contents and timestamp are carried along and
\* read by none of extend, merge, clock, tips and traverse.
NewEntry(id, clock) == [id |-> id, clock |-> clock]

\* A History::new that wraps the graph without looking for the root in it.
HistNewUnchecked(root, graph) == [root |-> root, graph |-> graph]

\* History::new: assert!(graph.contains(&root), ..); Self { root, graph }
HistNew(root, graph) ==
    IF Contains(graph, root) THEN [root |-> root, graph |-> graph]
    ELSE Panic("History::new: root must be present in graph")

HistNewFromRoot(id) == [root |-> id, graph |-> DagRoot(id, NewEntry(id, 1))]

Max(S) == CHOOSE x \in S : \A y \in S : x >= y

\* History::clock: the maximum over the tips, 0 without tips.
HistClock(h) ==
    LET cs == {h.graph.graph[k].value.clock : k \in Range(TipKeys(h.graph))}
    IN  IF cs = {} THEN 0 ELSE Max(cs)

\* History::tips
HistTips(h) == {h.graph.graph[k].value.id : k \in Range(TipKeys(h.graph))}

\* impl PartialEq for History
HistEq(a, b) == HistTips(a) = HistTips(b)

\* History::traverse
HistTraverse(h, reject) == Fold(h.graph, h.root, reject)

\* An extend that reads the tips after it has inserted the new entry.
HistExtendTipsAfter(h, new_id) ==
    LET new_entry == NewEntry(new_id, HistClock(h) + 1)
        g == DagNode(h.graph, new_id, new_entry)
        tips == HistTips([h EXCEPT !.graph = g])
    IN  [h EXCEPT !.graph = DependencyToEach(g, new_id, Ascending(tips))]

\* An extend that gives the new entry the clock of the history.
HistExtendSameClock(h, new_id) ==
    LET tips == HistTips(h)
        new_entry == NewEntry(new_id, HistClock(h))
        g == DagNode(h.graph, new_id, new_entry)
    IN  [h EXCEPT !.graph = DependencyToEach(g, new_id, Ascending(tips))]

HistExtend(h, new_id) ==
    LET tips == HistTips(h)
        new_entry == NewEntry(new_id, HistClock(h) + 1)
        g == DagNode(h.graph, new_id, new_entry)
    IN  [h EXCEPT !.graph = DependencyToEach(g, new_id, Ascending(tips))]

HistMerge(h, other) == [h EXCEPT !.graph = DagMerge(@, other.graph)]

----------------------------------------------------------------------------
(* SpecDag: arbitrary calls on two Dags *)

NoOp == [op |-> "none"]

InitDag ==
    /\ dags = [i \in DagIds |-> DagNew]
    /\ calls = [i \in DagIds |-> {}]
    /\ hist = <<>>
    /\ phase = "none"
    /\ merged = <<>>
    /\ last = NoOp
    /\ ops = 0

Node(i, key, value) ==
    /\ ops < MaxOps
    /\ dags' = [dags EXCEPT ![i] = DagNode(@, key, value)]
    /\ last' = [op |-> "node", dag |-> i, key |-> key,
                present |-> Contains(dags[i], key)]
    /\ ops' = ops + 1
    /\ UNCHANGED <<calls, hist, phase, merged>>

Dependency(i, from, to) ==
    /\ ops < MaxOps
    /\ dags' = [dags EXCEPT ![i] = DagDependency(@, from, to)]
    /\ calls' = [calls EXCEPT ![i] = @ \cup {<<from, to>>}]
    /\ last' = [op |-> "dependency", dag |-> i, from |-> from, to |-> to,
                present |-> Contains(dags[i], from) /\ Contains(dags[i], to)]
    /\ ops' = ops + 1
    /\ UNCHANGED <<hist, phase, merged>>

\* dags[i].merge(dags[j].clone())
Merge(i, j) ==
    /\ ops < MaxOps
    /\ dags' = [dags EXCEPT ![i] = DagMerge(@, dags[j])]
    /\ last' = [op |-> "merge", dag |-> i, other |-> j]
    /\ ops' = ops + 1
    /\ UNCHANGED <<calls, hist, phase, merged>>

NextDag ==
    \/ \E i \in DagIds, key \in Keys : Node(i, key, Values[i])
    \/ \E i \in DagIds, from \in Keys, to \in Keys : Dependency(i, from, to)
    \/ \E i \in DagIds, j \in DagIds : Merge(i, j)

SpecDag == InitDag /\ [][NextDag]_vars

----------------------------------------------------------------------------
(* SpecGrow: two Dags grown from a shared root *)

InitGrow ==
    /\ dags = [i \in DagIds |-> DagRoot(0, Values[i])]
    /\ calls = [i \in DagIds |-> {}]
    /\ hist = <<>>
    /\ phase = "none"
    /\ merged = <<>>
    /\ last = NoOp
    /\ ops = 0

\* A caller adds a node and then its edges to nodes already present:
\* node(key, value); for to in deps { dependency(key, to) }
Grow(i, key, value, deps) ==
    /\ Cardinality(DOMAIN dags[1].graph) + Cardinality(DOMAIN dags[2].graph) - 2 < MaxGrown
    /\ ~Contains(dags[i], key)
    /\ deps # {}
    /\ deps \subseteq DOMAIN dags[i].graph
    /\ dags' = [dags EXCEPT ![i] =
                   DependencyToEach(DagNode(@, key, value), key, Ascending(deps))]
    /\ calls' = [calls EXCEPT ![i] = @ \cup {<<key, to>> : to \in deps}]
    /\ last' = [op |-> "grow", dag |-> i, key |-> key]
    /\ UNCHANGED <<hist, phase, merged, ops>>

NextGrow ==
    \E i \in DagIds, key \in GrowKeys, deps \in SUBSET GrowKeys :
        Grow(i, key, Values[i], deps)

SpecGrow == InitGrow /\ [][NextGrow]_vars

----------------------------------------------------------------------------
(* SpecHist: replicas of one History *)

InitHist ==
    /\ dags = <<>>
    /\ calls = <<>>
    /\ hist = [r \in Replicas |-> HistNewFromRoot(0)]
    /\ phase = "extend"
    /\ merged = [r \in Replicas |-> {}]
    /\ last = [op |-> "new_from_root"]
    /\ ops = 0

\* Ids some replica already holds.
UsedIds == UNION {DOMAIN hist[r].graph.graph : r \in Replicas}

\* hist[r].extend(id, ...) with a globally fresh id
Extend(r, id) ==
    /\ phase = "extend"
    /\ id \notin UsedIds
    /\ hist' = [hist EXCEPT ![r] = HistExtend(@, id)]
    /\ last' = [op |-> "extend", replica |-> r, id |-> id,
                tips |-> HistTips(hist[r]), clock |-> HistClock(hist[r])]
    /\ UNCHANGED <<dags, calls, phase, merged, ops>>

\* hist[r].merge(hist[s].clone())
MergeFrom(r, s) ==
    /\ r # s
    /\ hist' = [hist EXCEPT ![r] = HistMerge(@, hist[s])]
    /\ merged' = IF phase = "settle" THEN [merged EXCEPT ![r] = @ \cup {s}] ELSE merged
    /\ last' = [op |-> "merge"]
    /\ UNCHANGED <<dags, calls, phase, ops>>

\* The replicas stop extending; what each holds now is its final history.
StopExtends ==
    /\ phase = "extend"
    /\ phase' = "settle"
    /\ last' = [op |-> "stop"]
    /\ UNCHANGED <<dags, calls, hist, merged, ops>>

NextHist ==
    \/ \E r \in Pair, id \in Ids : Extend(r, id)
    \/ \E r \in Pair, s \in Pair : MergeFrom(r, s)

SpecHist == InitHist /\ [][NextHist]_vars

NextTrio ==
    \/ \E r \in Replicas, id \in TrioIds : Extend(r, id)
    \/ \E r \in Replicas, s \in Replicas : MergeFrom(r, s)

SpecTrio == InitHist /\ [][NextTrio]_vars

NextSettle ==
    \/ \E r \in Replicas, id \in SettleIds : Extend(r, id)
    \/ \E r \in Replicas, s \in Replicas : MergeFrom(r, s)
    \/ StopExtends

SpecSettle == InitHist /\ [][NextSettle]_vars

\* hist[r].extend(id, ...) with an id hist[r] does not hold; the other replica
\* may hold an entry of that id, and ops counts the calls for which it did.
ExtendOwn(r, id) ==
    /\ id \notin DOMAIN hist[r].graph.graph
    /\ id \in UsedIds => ops < MaxReused
    /\ hist' = [hist EXCEPT ![r] = HistExtend(@, id)]
    /\ last' = [op |-> "extend", replica |-> r, id |-> id,
                tips |-> HistTips(hist[r]), clock |-> HistClock(hist[r])]
    /\ ops' = IF id \in UsedIds THEN ops + 1 ELSE ops
    /\ UNCHANGED <<dags, calls, phase, merged>>

NextOwn ==
    \/ \E r \in Pair, id \in OwnIds : ExtendOwn(r, id)
    \/ \E r \in Pair, s \in Pair : MergeFrom(r, s)

SpecOwn == InitHist /\ [][NextOwn]_vars

----------------------------------------------------------------------------
(* Shapes of a Dag *)

ZeroDependents(d) == {k \in DOMAIN d.graph : d.graph[k].dependents = {}}
ZeroDependencies(d) == {k \in DOMAIN d.graph : d.graph[k].dependencies = {}}

\* Every edge names a node of the graph.
Closed(d) ==
    \A k \in DOMAIN d.graph :
        d.graph[k].dependencies \cup d.graph[k].dependents \subseteq DOMAIN d.graph

\* Every edge between two nodes of the graph is recorded on both of them.
Symmetric(d) ==
    \A k \in DOMAIN d.graph, m \in DOMAIN d.graph :
        (m \in d.graph[k].dependencies) <=> (k \in d.graph[m].dependents)

\* Keys reachable from the keys of S over one or more dependents edges.
RECURSIVE DependentsClosure(_, _)
DependentsClosure(d, S) ==
    LET T == S \cup UNION {d.graph[k].dependents : k \in S \cap DOMAIN d.graph}
    IN  IF T = S THEN S ELSE DependentsClosure(d, T)

TransitiveDependents(d, key) == DependentsClosure(d, d.graph[key].dependents)

\* Keys reachable from the keys of S over one or more dependencies edges.
RECURSIVE DependenciesClosure(_, _)
DependenciesClosure(d, S) ==
    LET T == S \cup UNION {d.graph[k].dependencies : k \in S \cap DOMAIN d.graph}
    IN  IF T = S THEN S ELSE DependenciesClosure(d, T)

\* No node depends on itself over one or more recorded dependencies.
Acyclic(d) ==
    \A k \in DOMAIN d.graph : k \notin DependenciesClosure(d, d.graph[k].dependencies)

\* Same node keys, same edges on every node, same tips and same roots.
SameShape(a, b) ==
    /\ DOMAIN a.graph = DOMAIN b.graph
    /\ \A k \in DOMAIN a.graph :
           /\ a.graph[k].dependencies = b.graph[k].dependencies
           /\ a.graph[k].dependents = b.graph[k].dependents
    /\ a.tips = b.tips
    /\ a.roots = b.roots

----------------------------------------------------------------------------
(* C1 *)

\* C1: after any sequence of node, dependency and merge calls, the cached tips
\* are exactly the keys whose node has no dependents, and the cached roots are
\* exactly the keys whose node has no dependencies.
C1_TipsRootsExact ==
    \A i \in DagIds :
        /\ dags[i].tips = ZeroDependents(dags[i])
        /\ dags[i].roots = ZeroDependencies(dags[i])

\* A merge has just acted on a Dag that holds an edge to an absent key, a node
\* that is no tip and a node that is no root.
C1_Witness ==
    /\ last.op = "merge"
    /\ LET d == dags[last.dag] IN
       /\ ~Closed(d)
       /\ d.tips # DOMAIN d.graph
       /\ d.roots # DOMAIN d.graph

----------------------------------------------------------------------------
(* C2 *)

\* Every replica has merged, since the extends stopped, the history of every
\* other replica.
AllMerged == phase = "settle" /\ \A r \in Replicas : merged[r] = Replicas \ {r}

\* C2: once the extends have stopped and every replica has merged the final
\* history of every other replica, all replicas have the same tips (they are
\* equal as History values) and the same nodes and edges.
C2_Convergence ==
    AllMerged =>
        \A r \in Replicas, s \in Replicas :
            /\ HistEq(hist[r], hist[s])
            /\ hist[r].graph.graph = hist[s].graph.graph

\* The replicas have converged on a history that holds every id and has
\* several tips: entries were created concurrently on different replicas.
C2_Witness ==
    /\ AllMerged
    /\ \A r \in Replicas :
           /\ DOMAIN hist[r].graph.graph = SettleIds
           /\ Cardinality(HistTips(hist[r])) >= 2

----------------------------------------------------------------------------
(* C3 *)

\* C3: for two Dags grown from a shared root, a.merge(b) and b.merge(a) have
\* the same node keys, the same dependencies and dependents on every node, the
\* same tips and the same roots.
C3_MergeCommutes ==
    SameShape(DagMerge(dags[1], dags[2]), DagMerge(dags[2], dags[1]))

\* Each Dag holds a node the other lacks, and a node they share has different
\* dependencies in the two: either merge changes the Dag it is applied to.
C3_Witness ==
    /\ DOMAIN dags[1].graph \ DOMAIN dags[2].graph # {}
    /\ DOMAIN dags[2].graph \ DOMAIN dags[1].graph # {}
    /\ \E k \in DOMAIN dags[1].graph \cap DOMAIN dags[2].graph :
           dags[1].graph[k].dependencies # dags[2].graph[k].dependencies
    /\ ~SameShape(DagMerge(dags[1], dags[2]), dags[1])
    /\ ~SameShape(DagMerge(dags[2], dags[1]), dags[2])

----------------------------------------------------------------------------
(* C4 *)

\* a.merge(b.clone()); a.merge(b) gives what a.merge(b) gives.
MergeTwiceIsOnce(a, b) == DagMerge(DagMerge(a, b), b) = DagMerge(a, b)

\* C4 as stated: merge is idempotent for every pair of Dags a and b.
C4_MergeIdempotent ==
    \A i \in DagIds, j \in DagIds : MergeTwiceIsOnce(dags[i], dags[j])

\* C4 as amended: merge is idempotent for every pair of Dags a and b of which b
\* records every edge between two of its nodes on both of them.
C4_MergeIdempotentSymmetric ==
    \A i \in DagIds, j \in DagIds :
        Symmetric(dags[j]) => MergeTwiceIsOnce(dags[i], dags[j])

\* b is symmetric and holds an edge between two nodes, and merging it changes a,
\* which holds a node of its own.
C4_Witness ==
    \E i \in DagIds, j \in DagIds :
        /\ Symmetric(dags[j])
        /\ \E k \in DOMAIN dags[j].graph :
               dags[j].graph[k].dependencies \cap DOMAIN dags[j].graph # {}
        /\ DOMAIN dags[i].graph \ DOMAIN dags[j].graph # {}
        /\ DagMerge(dags[i], dags[j]) # dags[i]

----------------------------------------------------------------------------
(* C5 *)

\* Same node set, same edge sets and same tips().
SameHistory(a, b) ==
    /\ DOMAIN a.graph.graph = DOMAIN b.graph.graph
    /\ \A k \in DOMAIN a.graph.graph :
           /\ a.graph.graph[k].dependencies = b.graph.graph[k].dependencies
           /\ a.graph.graph[k].dependents = b.graph.graph[k].dependents
    /\ HistTips(a) = HistTips(b)

\* C5: for histories a, b, c of one root entry, merging b and then c into a
\* gives the same nodes, edges and tips as merging c into b and the result
\* into a.
C5_MergeAssociative ==
    \A r \in Replicas, s \in Replicas, t \in Replicas :
        (r # s /\ s # t /\ r # t) =>
            SameHistory(HistMerge(HistMerge(hist[r], hist[s]), hist[t]),
                        HistMerge(hist[r], HistMerge(hist[s], hist[t])))

\* Three replicas each hold an entry that neither of the others holds.
C5_Witness ==
    \A r \in Replicas :
        DOMAIN hist[r].graph.graph
            \ UNION {DOMAIN hist[s].graph.graph : s \in Replicas \ {r}} # {}

----------------------------------------------------------------------------
(* C6 *)

\* C6: in a fold from any start key with any filter, once the filter returns
\* Break for a node X, no transitive dependent of X is given Continue in that
\* fold.
C6_FoldPoisonsDependents ==
    \A r \in Replicas :
        LET d == hist[r].graph IN
        \A root \in DOMAIN d.graph, reject \in SUBSET DOMAIN d.graph :
            LET acc == Fold(d, root, reject) IN
            \A i \in 1 .. Len(acc), j \in 1 .. Len(acc) :
                (~acc[i].accept /\ acc[j].accept)
                    => acc[j].key \notin TransitiveDependents(d, acc[i].key)

----------------------------------------------------------------------------
(* C7 *)

\* b occurs before a in the order, for every dependency(a, b) call of E.
Topological(order, E) ==
    \A e \in E :
        /\ IndexOf(order, e[1]) # 0
        /\ IndexOf(order, e[2]) # 0
        /\ IndexOf(order, e[2]) < IndexOf(order, e[1])

\* The dependency(a, b) calls made on Dag i that name two different keys,
\* both of them nodes of the graph now.
CallsOnNodes(i) ==
    {e \in calls[i] : e[1] # e[2] /\ Contains(dags[i], e[1]) /\ Contains(dags[i], e[2])}

\* C7 as stated: after any sequence of node and dependency calls and for any
\* comparison function, b occurs before a in sorted() for every call
\* dependency(a, b) that was made (read here for the calls that name two
\* different nodes of the graph only).
C7_SortedTopological ==
    \A i \in DagIds :
        \A keys \in KeyOrders(dags[i]) :
            Topological(Sorted(dags[i], keys), CallsOnNodes(i))

\* Every dependency(a, b) call made is recorded on both nodes: a and b were
\* nodes when it was made and neither was inserted again since.
Recorded(i) ==
    \A e \in calls[i] :
        /\ Contains(dags[i], e[1])
        /\ Contains(dags[i], e[2])
        /\ e[2] \in dags[i].graph[e[1]].dependencies
        /\ e[1] \in dags[i].graph[e[2]].dependents

\* C7 as amended: when every dependency(a, b) call made is recorded on both
\* of its nodes and the recorded dependencies form no cycle, b occurs before a
\* in sorted() for every such call, for any comparison function.
C7_SortedTopologicalAcyclic ==
    \A i \in DagIds :
        (Recorded(i) /\ Acyclic(dags[i])) =>
            \A keys \in KeyOrders(dags[i]) :
                Topological(Sorted(dags[i], keys), calls[i])

\* A Dag of three nodes with a recorded dependency call and no cycle, of which
\* sorted() returns different orders for different comparison functions.
C7_Witness ==
    \E i \in DagIds :
        /\ Recorded(i) /\ Acyclic(dags[i])
        /\ Cardinality(DOMAIN dags[i].graph) = 3
        /\ calls[i] # {}
        /\ Cardinality({Sorted(dags[i], keys) : keys \in KeyOrders(dags[i])}) >= 2

----------------------------------------------------------------------------
(* C8 *)

\* C8: whenever traverse invokes the callback on an entry, it has already
\* invoked it on every entry that entry depends on.
C8_TraverseParentsFirst ==
    \A r \in Replicas :
        \A reject \in SUBSET DOMAIN hist[r].graph.graph :
            LET acc == HistTraverse(hist[r], reject) IN
            \A i \in 1 .. Len(acc) :
                \A dep \in hist[r].graph.graph[acc[i].key].dependencies :
                    \E j \in 1 .. (i - 1) : acc[j].key = dep

----------------------------------------------------------------------------
(* C9 *)

\* C9: after extend(new_id), the dependencies of new_id are the tips() of
\* before the call, every one of those has new_id among its dependents, and
\* tips() is {new_id}.
C9_ExtendSupersedesTips ==
    last.op = "extend" =>
        LET h == hist[last.replica]
            g == h.graph.graph
        IN  /\ g[last.id].dependencies = last.tips
            /\ \A t \in last.tips : last.id \in g[t].dependents
            /\ HistTips(h) = {last.id}

\* extend has just acted on a history that had several tips.
C9_Witness ==
    /\ last.op = "extend"
    /\ Cardinality(last.tips) >= 2

----------------------------------------------------------------------------
(* C10 *)

\* C10: a history built by new_from_root has clock() 1, and extend creates an
\* entry whose clock is the clock() of before the call plus one, which is
\* clock() after the call.
C10_ClockProgression ==
    /\ last.op = "new_from_root" => \A r \in Replicas : HistClock(hist[r]) = 1
    /\ last.op = "extend" =>
           LET h == hist[last.replica] IN
           /\ h.graph.graph[last.id].value.clock = last.clock + 1
           /\ HistClock(h) = last.clock + 1

\* extend has just acted on a history that had merged another one: it had two
\* tips of different clocks, and clock() is now 4 or more.
C10_Witness ==
    /\ last.op = "extend"
    /\ LET g == hist[last.replica].graph.graph IN
       \E t \in last.tips, u \in last.tips : g[t].value.clock < g[u].value.clock
    /\ HistClock(hist[last.replica]) >= 4

----------------------------------------------------------------------------
(* C11 *)

\* The Dag of h as it was before the entry t, a tip, was added to it.
DagWithout(h, t) ==
    LET g == [k \in DOMAIN h.graph.graph \ {t} |->
                 [h.graph.graph[k] EXCEPT !.dependents = @ \ {t}]]
    IN  [graph |-> g,
         tips  |-> {k \in DOMAIN g : g[k].dependents = {}},
         roots |-> {k \in DOMAIN g : g[k].dependencies = {}}]

\* a and b are two copies of one history, extended by t1 and by t2.
Forked(a, b, t1, t2) ==
    /\ t1 # t2
    /\ t1 \in DOMAIN a.graph.graph \ {a.root}
    /\ t2 \in DOMAIN b.graph.graph \ {b.root}
    /\ DagWithout(a, t1) = DagWithout(b, t2)
    /\ a = HistExtend([a EXCEPT !.graph = DagWithout(a, t1)], t1)
    /\ b = HistExtend([b EXCEPT !.graph = DagWithout(b, t2)], t2)

\* Ids no entry of h has.
FreshIds(h) == (0 .. MaxId + 1) \ DOMAIN h.graph.graph

\* C11: when two copies of one history were extended, one by T1 and the other
\* by T2, merging one into the other gives tips() = {T1, T2}, and a further
\* extend of the merged history with a fresh id T3 creates an entry that
\* depends on T1 and on T2 and leaves tips() = {T3}.
C11_MergeScenario ==
    \A r \in Pair, s \in Pair, t1 \in Ids, t2 \in Ids :
        Forked(hist[r], hist[s], t1, t2) =>
            LET m == HistMerge(hist[r], hist[s]) IN
            /\ HistTips(m) = {t1, t2}
            /\ \A t3 \in FreshIds(m) :
                   LET e == HistExtend(m, t3) IN
                   /\ {t1, t2} \subseteq e.graph.graph[t3].dependencies
                   /\ HistTips(e) = {t3}

\* The two replicas hold copies of a history of three entries and two tips, and
\* each has extended its copy with an entry of its own.
C11_Witness ==
    /\ last.op = "extend"
    /\ \E t1 \in Ids, t2 \in Ids :
           /\ Forked(hist[1], hist[2], t1, t2)
           /\ Cardinality(DOMAIN hist[1].graph.graph) = 4
           /\ Cardinality(hist[1].graph.graph[t1].dependencies) = 2

----------------------------------------------------------------------------
(* C12 *)

\* Every node of a is a node of m with the same value, and every dependency
\* and dependent a records on a node is recorded on that node in m.
Keeps(a, m) ==
    \A k \in DOMAIN a.graph :
        /\ k \in DOMAIN m.graph
        /\ m.graph[k].value = a.graph[k].value
        /\ a.graph[k].dependencies \subseteq m.graph[k].dependencies
        /\ a.graph[k].dependents \subseteq m.graph[k].dependents

\* C12: after self.merge(other), every key of self is still in self with the
\* value it had (also when other holds the key with another value), and every
\* dependency and dependent self recorded is still recorded.
C12_MergeAdditive ==
    \A i \in DagIds, j \in DagIds : Keeps(dags[i], DagMerge(dags[i], dags[j]))

\* Two Dags hold a key with different values, and merging one into the other
\* imports a node and adds an edge to the node of the shared key.
C12_Witness ==
    \E i \in DagIds, j \in DagIds :
        LET a == dags[i]
            b == dags[j]
            m == DagMerge(a, b)
        IN  /\ DOMAIN m.graph \ DOMAIN a.graph # {}
            /\ \E k \in DOMAIN a.graph \cap DOMAIN b.graph :
                   /\ a.graph[k].value # b.graph[k].value
                   /\ m.graph[k].dependents # a.graph[k].dependents

----------------------------------------------------------------------------
(* C13 *)

\* b has one root, and every node of b is that root or reachable from it over
\* dependents.
OneComponent(b) ==
    /\ Len(RootKeys(b)) = 1
    /\ DOMAIN b.graph \subseteq Range(RootKeys(b)) \cup DependentsClosure(b, Range(RootKeys(b)))

\* The dependencies and the dependents d records for key, none when d has no
\* such node.
DependenciesIn(d, key) == IF key \in DOMAIN d.graph THEN d.graph[key].dependencies ELSE {}
DependentsIn(d, key) == IF key \in DOMAIN d.graph THEN d.graph[key].dependents ELSE {}

\* m is the union of a and b: in keys, and key by key in dependencies and in
\* dependents; a tip of a of which b records a dependent is no tip of m.
IsUnion(a, b, m) ==
    /\ DOMAIN m.graph = DOMAIN a.graph \cup DOMAIN b.graph
    /\ \A k \in DOMAIN m.graph :
           /\ m.graph[k].dependencies = DependenciesIn(a, k) \cup DependenciesIn(b, k)
           /\ m.graph[k].dependents = DependentsIn(a, k) \cup DependentsIn(b, k)
    /\ \A k \in Range(TipKeys(a)) :
           DependentsIn(b, k) # {} => k \notin Range(TipKeys(m))

\* C13 as stated: when other is a single component reachable from its one
\* root, self.merge(other) leaves in self the union of the two graphs.
C13_MergeIsUnion ==
    \A i \in DagIds, j \in DagIds :
        OneComponent(dags[j]) => IsUnion(dags[i], dags[j], DagMerge(dags[i], dags[j]))

\* C13 as amended: the same, when in addition every edge other records names
\* two nodes of other and is recorded on both of them.
C13_MergeIsUnionClosed ==
    \A i \in DagIds, j \in DagIds :
        (OneComponent(dags[j]) /\ Closed(dags[j]) /\ Symmetric(dags[j])) =>
            IsUnion(dags[i], dags[j], DagMerge(dags[i], dags[j]))

\* other is one component of two nodes and an edge, recorded on both, and
\* merging it makes a tip of self stop being a tip.
C13_Witness ==
    \E i \in DagIds, j \in DagIds :
        /\ OneComponent(dags[j]) /\ Closed(dags[j]) /\ Symmetric(dags[j])
        /\ Cardinality(DOMAIN dags[j].graph) >= 2
        /\ \E k \in Range(TipKeys(dags[i])) :
               k \notin Range(TipKeys(DagMerge(dags[i], dags[j])))

----------------------------------------------------------------------------
(* C14 *)

\* This step is a call of node().
NodeStep == ops' = ops + 1 /\ last'.op = "node"

\* node() acted on a key the graph did not hold: it returns None, and the key
\* is a node without edges, a tip and a root.
NodeInserts(before, after, key) ==
    /\ DagNodeReturn(before, key) = None
    /\ after.graph[key].dependencies = {}
    /\ after.graph[key].dependents = {}
    /\ key \in after.tips
    /\ key \in after.roots

\* C14 as stated: node() on a key the graph holds returns the previous Node and
\* leaves the node its dependencies and dependents; on another key it returns
\* None and adds the key to tips and roots with empty edge sets.
C14_NodeKeepsEdges ==
    [][NodeStep =>
          LET before == dags[last'.dag]
              after == dags'[last'.dag]
              key == last'.key
          IN  IF Contains(before, key)
              THEN /\ DagNodeReturn(before, key) = before.graph[key]
                   /\ after.graph[key].dependencies = before.graph[key].dependencies
                   /\ after.graph[key].dependents = before.graph[key].dependents
              ELSE NodeInserts(before, after, key)]_vars

\* C14 as amended: node() on a key the graph holds returns the previous Node
\* and replaces the whole node: the new one has the new value and empty
\* dependencies and dependents, the key is added to tips and roots, and every
\* other node is left as it was; on another key as stated.
C14_NodeReplacesNode ==
    [][NodeStep =>
          LET before == dags[last'.dag]
              after == dags'[last'.dag]
              key == last'.key
          IN  IF Contains(before, key)
              THEN /\ DagNodeReturn(before, key) = before.graph[key]
                   /\ after.graph[key] = NewNode(Values[last'.dag])
                   /\ after.tips = before.tips \cup {key}
                   /\ after.roots = before.roots \cup {key}
                   /\ DOMAIN after.graph = DOMAIN before.graph
                   /\ \A k \in DOMAIN before.graph \ {key} :
                          after.graph[k] = before.graph[k]
              ELSE NodeInserts(before, after, key)]_vars

\* node() has acted on a key the graph held, and another node names that key
\* among its edges.
C14_Witness ==
    /\ last.op = "node"
    /\ last.present
    /\ \E k \in DOMAIN dags[last.dag].graph \ {last.key} :
           last.key \in dags[last.dag].graph[k].dependencies
                        \cup dags[last.dag].graph[k].dependents

----------------------------------------------------------------------------
(* C15 *)

\* This step is a call of dependency().
DependencyStep == ops' = ops + 1 /\ last'.op = "dependency"

\* from and to are nodes of d, and the edge from -> to is recorded on both.
\* It is, exactly when dependency(from, to) was called while both were nodes
\* and no later call has undone it: keys never leave the graph, so the later
\* of the two calls that recorded the two halves found both keys present.
BothRecorded(d, from, to) ==
    /\ Contains(d, from)
    /\ Contains(d, to)
    /\ to \in d.graph[from].dependencies
    /\ from \in d.graph[to].dependents

\* A call dependency(from, to) made with both keys present records the edge
\* on both nodes.
RecordsEdge ==
    (DependencyStep /\ last'.present) =>
        BothRecorded(dags'[last'.dag], last'.from, last'.to)

\* C15 as stated: a call dependency(from, to) made while both keys were present
\* leaves to in graph[from].dependencies and from in graph[to].dependents, and
\* they stay there in every later state (read here for the calls that name
\* two different keys only).
C15_EdgeInvariant ==
    [][/\ RecordsEdge
       /\ \A i \in DagIds, from \in Keys, to \in Keys :
              (from # to /\ BothRecorded(dags[i], from, to))
                  => BothRecorded(dags'[i], from, to)]_vars

\* This step is a call of node() on Dag i with key from or key to.
InsertsAgain(i, from, to) ==
    NodeStep /\ last'.dag = i /\ last'.key \in {from, to}

\* C15 as amended: they stay there in every later state up to the next call
\* of node() with key from or key to.
C15_EdgeInvariantUntilNode ==
    [][/\ RecordsEdge
       /\ \A i \in DagIds, from \in Keys, to \in Keys :
              (BothRecorded(dags[i], from, to) /\ ~InsertsAgain(i, from, to))
                  => BothRecorded(dags'[i], from, to)]_vars

\* A dependency between two different nodes was recorded, and the last call, a
\* node() of a third key or a merge, has left it recorded.
C15_Witness ==
    /\ last.op \in {"node", "merge"}
    /\ \E e \in calls[last.dag] :
           /\ e[1] # e[2]
           /\ BothRecorded(dags[last.dag], e[1], e[2])

----------------------------------------------------------------------------
(* C16 *)

\* C16 as stated: dependency(from, to) called when from or to is absent from
\* the graph leaves the whole Dag unchanged.
C16_AbsentIsNoOp ==
    [][(DependencyStep /\ ~last'.present) =>
          dags'[last'.dag] = dags[last'.dag]]_vars

\* C16 as amended: dependency(from, to) called when both keys are absent
\* leaves the whole Dag unchanged; when only to is absent it adds to to
\* graph[from].dependencies and removes from from roots; when only from is
\* absent it adds from to graph[to].dependents and removes to from tips; it
\* changes nothing else.
C16_AbsentRecordsHalf ==
    [][(DependencyStep /\ ~last'.present) =>
          LET before == dags[last'.dag]
              after == dags'[last'.dag]
              from == last'.from
              to == last'.to
          IN  /\ DOMAIN after.graph = DOMAIN before.graph
              /\ \A k \in DOMAIN before.graph :
                     /\ after.graph[k].value = before.graph[k].value
                     /\ after.graph[k].dependencies =
                            before.graph[k].dependencies \cup (IF k = from THEN {to} ELSE {})
                     /\ after.graph[k].dependents =
                            before.graph[k].dependents \cup (IF k = to THEN {from} ELSE {})
              /\ after.roots = before.roots \ (IF Contains(before, from) THEN {from} ELSE {})
              /\ after.tips = before.tips \ (IF Contains(before, to) THEN {to} ELSE {})]_vars

\* dependency() has just acted with one of its two keys absent and the other a
\* node of the graph.
C16_Witness ==
    /\ last.op = "dependency"
    /\ ~last.present
    /\ Contains(dags[last.dag], last.from) # Contains(dags[last.dag], last.to)

----------------------------------------------------------------------------
(* C17 *)

\* The keys of d and the keys its nodes name as dependencies.
NamedKeys(d) == DOMAIN d.graph \cup UNION {d.graph[k].dependencies : k \in DOMAIN d.graph}

\* No key occurs twice in the sequence.
NoRepeat(s) == Len(s) = Cardinality(Range(s))

\* C17: on every graph, cyclic ones included, and for every comparison
\* function, sorted() ends after it has visited each key once at most (its
\* result lists no key twice and only keys of the graph or named by it); on a
\* cyclic graph whose edges name only nodes the result lists every node key
\* exactly once.
C17_SortedTerminates ==
    \A i \in DagIds :
        \A keys \in KeyOrders(dags[i]) :
            LET order == Sorted(dags[i], keys) IN
            /\ NoRepeat(order)
            /\ Range(order) \subseteq NamedKeys(dags[i])
            /\ (~Acyclic(dags[i]) /\ Closed(dags[i])) =>
                   Range(order) = DOMAIN dags[i].graph

\* A Dag whose two nodes depend on each other, as in tests::test_cycle:
\* sorted() returns one order or the other, as the comparison function has it.
C17_Witness ==
    \E i \in DagIds :
        LET d == dags[i] IN
        /\ Closed(d)
        /\ \E k \in DOMAIN d.graph, m \in DOMAIN d.graph :
               /\ k # m
               /\ m \in d.graph[k].dependencies
               /\ k \in d.graph[m].dependencies
        /\ Cardinality({Sorted(d, keys) : keys \in KeyOrders(d)}) = 2

----------------------------------------------------------------------------
(* C18 *)

\* The keys the filter was called on, in the order of the calls.
FilterCalls(acc) == [i \in 1 .. Len(acc) |-> acc[i].key]

\* C18: on every graph, cyclic ones and ones with edges to absent keys
\* included, from every start key and with every filter, fold ends, and so does
\* descendants_of; the filter is called once per key at most and on nodes of
\* the graph only.
C18_FoldTerminates ==
    \A i \in DagIds :
        LET d == dags[i] IN
        /\ \A root \in Keys, reject \in SUBSET DOMAIN d.graph :
               LET called == FilterCalls(Fold(d, root, reject)) IN
               /\ NoRepeat(called)
               /\ Range(called) \subseteq DOMAIN d.graph
        /\ \A k \in DOMAIN d.graph :
               LET nodes == DescendantsOf(d, d.graph[k]) IN
               /\ NoRepeat(nodes)
               /\ Range(nodes) \subseteq DOMAIN d.graph

\* A fold over a cyclic Dag in which the filter returns Continue for one node
\* and Break for another, whose transitive dependents include itself.
C18_Witness ==
    \E i \in DagIds :
        LET d == dags[i] IN
        /\ ~Acyclic(d)
        /\ \E root \in Keys, reject \in SUBSET DOMAIN d.graph :
               LET acc == Fold(d, root, reject) IN
               \E m \in 1 .. Len(acc), n \in 1 .. Len(acc) :
                   /\ acc[m].accept
                   /\ ~acc[n].accept
                   /\ acc[n].key \in Range(DescendantsOf(d, d.graph[acc[n].key]))

----------------------------------------------------------------------------
(* C19 *)

\* C19 as stated: after any sequence of node and dependency calls and for any
\* comparison function, sorted() contains every key of the graph exactly once
\* and no key that is not a node of the graph.
C19_SortedOverNodes ==
    \A i \in DagIds :
        \A keys \in KeyOrders(dags[i]) :
            LET order == Sorted(dags[i], keys) IN
            /\ NoRepeat(order)
            /\ Range(order) = DOMAIN dags[i].graph

\* C19 as amended: sorted() contains exactly once every key of the graph and
\* every key that some node's dependencies name, node of the graph or not, and
\* no other key.
C19_SortedOverNamedKeys ==
    \A i \in DagIds :
        \A keys \in KeyOrders(dags[i]) :
            LET order == Sorted(dags[i], keys) IN
            /\ NoRepeat(order)
            /\ Range(order) = NamedKeys(dags[i])

\* A Dag of two nodes, one of which depends on the other and on a key that is
\* no node: sorted() lists three keys.
C19_Witness ==
    \E i \in DagIds :
        LET d == dags[i] IN
        /\ Cardinality(DOMAIN d.graph) = 2
        /\ \E k \in DOMAIN d.graph :
               /\ d.graph[k].dependencies \cap DOMAIN d.graph # {}
               /\ d.graph[k].dependencies \ DOMAIN d.graph # {}
        /\ \A keys \in KeyOrders(d) : Len(Sorted(d, keys)) = 3

----------------------------------------------------------------------------
(* C20 *)

\* d is the graph of tests::test_diamond: nodes 0, 1, 2, 3 and the calls
\* dependency(1, 0), dependency(2, 0), dependency(3, 1), dependency(3, 2).
IsDiamond(i) ==
    /\ DOMAIN dags[i].graph = {0, 1, 2, 3}
    /\ calls[i] = {<<1, 0>>, <<2, 0>>, <<3, 1>>, <<3, 2>>}

\* C20: in the diamond, roots() is {0}, tips() is {3}, and sorted() returns
\* [0, 1, 2, 3] or [0, 2, 1, 3], whatever the comparison function.
C20_Diamond ==
    \A i \in DagIds :
        IsDiamond(i) =>
            /\ Range(RootKeys(dags[i])) = {0}
            /\ Range(TipKeys(dags[i])) = {3}
            /\ \A keys \in KeyOrders(dags[i]) :
                   Sorted(dags[i], keys) \in {<<0, 1, 2, 3>>, <<0, 2, 1, 3>>}

\* A Dag is the diamond, and sorted() returns each of the two orders for some
\* comparison function.
C20_Witness ==
    \E i \in DagIds :
        /\ IsDiamond(i)
        /\ {Sorted(dags[i], keys) : keys \in KeyOrders(dags[i])}
               = {<<0, 1, 2, 3>>, <<0, 2, 1, 3>>}

----------------------------------------------------------------------------
(* C21 *)

\* The orders of the node keys of d in which every node comes after the
\* dependencies it records.
LinearExtensions(d) ==
    {p \in Perms(DOMAIN d.graph) :
        \A k \in DOMAIN d.graph :
            \A dep \in d.graph[k].dependencies : IndexOf(p, dep) < IndexOf(p, k)}

\* What sorted() can return, over every order sort_by(compare) can leave.
SortedOutputs(d) == {Sorted(d, keys) : keys \in KeyOrders(d)}

\* C21: for an acyclic graph whose nodes were inserted before the edges that
\* name them, the sequences sorted() can return are exactly the topological
\* orders of the graph; the graph of tests::test_complex has 13 of them.
C21_SortedAllOrders ==
    /\ \A i \in DagIds : SortedOutputs(dags[i]) = LinearExtensions(dags[i])
    /\ last = NoOp =>
           /\ SortedOutputs(TestComplex) = LinearExtensions(TestComplex)
           /\ Cardinality(SortedOutputs(TestComplex)) = 13

\* A Dag of four nodes with a node of two dependencies and with several
\* topological orders.
C21_Witness ==
    \E i \in DagIds :
        /\ Cardinality(DOMAIN dags[i].graph) = 4
        /\ \E k \in DOMAIN dags[i].graph : Cardinality(dags[i].graph[k].dependencies) = 2
        /\ Cardinality(LinearExtensions(dags[i])) >= 2

----------------------------------------------------------------------------
(* C22 *)

\* The nodes of d at n dependents edges from root and no fewer; seen is the
\* set of nodes at fewer edges, level the set of nodes at exactly n - 1.
RECURSIVE AtDistance(_, _, _, _)
AtDistance(d, seen, level, n) ==
    IF n = 0 THEN level
    ELSE AtDistance(d, seen \cup level,
                    (UNION {d.graph[k].dependents : k \in level} \cap DOMAIN d.graph)
                        \ (seen \cup level),
                    n - 1)

\* The nodes of d at exactly n dependents edges from root by the shortest path.
Level(d, root, n) == AtDistance(d, {}, {root} \cap DOMAIN d.graph, n)

\* The position in acc of the first node called that has key as a dependent.
FirstParent(d, acc, key) ==
    Min({p \in 1 .. Len(acc) : key \in d.graph[acc[p].key].dependents})

\* acc is a breadth-first walk: depths do not decrease; of two nodes of one
\* depth, the one whose first parent was called earlier comes first, and the
\* smaller key when that parent is the same.
BreadthFirst(d, acc) ==
    \A i \in 1 .. Len(acc), j \in 1 .. Len(acc) :
        i < j =>
            /\ acc[i].depth <= acc[j].depth
            /\ (acc[i].depth = acc[j].depth /\ acc[i].depth > 0) =>
                   /\ FirstParent(d, acc, acc[i].key) <= FirstParent(d, acc, acc[j].key)
                   /\ FirstParent(d, acc, acc[i].key) = FirstParent(d, acc, acc[j].key)
                          => acc[i].key < acc[j].key

----------------------------------------------------------------------------
(* C23 *)

Panicked(outcome) == "panic" \in DOMAIN outcome

\* C23: History::new(root, graph) panics exactly when root is not a key of
\* graph; otherwise it returns a History of that root over the same graph.
C23_NewChecksRoot ==
    \A r \in Pair, root \in 0 .. MaxId :
        LET graph == hist[r].graph
            outcome == HistNew(root, graph)
        IN  /\ Panicked(outcome) <=> root \notin DOMAIN graph.graph
            /\ root \in DOMAIN graph.graph =>
                   /\ outcome.root = root
                   /\ outcome.graph = graph
                   /\ root = hist[r].root => outcome = hist[r]

\* A graph of three entries or more, one id that is not in it and one entry
\* other than the root that is: History::new panics on the first and wraps the
\* graph on the second.
C23_Witness ==
    \E r \in Pair, absent \in Ids, present \in Ids :
        /\ Cardinality(DOMAIN hist[r].graph.graph) >= 3
        /\ Panicked(HistNew(absent, hist[r].graph))
        /\ ~Panicked(HistNew(present, hist[r].graph))
        /\ HistNew(present, hist[r].graph).root # hist[r].root

----------------------------------------------------------------------------
(* C24 *)

\* C24: dag[&key] panics exactly when key is not in the graph and otherwise
\* returns the Node that get(key) returns; get, contains and has_dependency
\* return a value for every key, in the graph or not, whatever edges the graph
\* records.
C24_IndexPanicsGetTotal ==
    \A i \in DagIds, key \in Keys :
        LET d == dags[i] IN
        /\ Panicked(Index(d, key)) <=> ~Contains(d, key)
        /\ Contains(d, key) => Index(d, key) = Get(d, key) /\ Get(d, key) = d.graph[key]
        /\ ~Contains(d, key) => Get(d, key) = None
        /\ ~Panicked(Get(d, key))
        /\ Contains(d, key) \in BOOLEAN
        /\ \A to \in Keys :
               /\ HasDependency(d, key, to) \in BOOLEAN
               /\ ~Contains(d, key) => ~HasDependency(d, key, to)

\* A Dag with a node, a key that is not a node, and a node that records the
\* absent key as a dependency: the index and has_dependency are asked about
\* present and absent keys.
C24_Witness ==
    \E i \in DagIds, key \in Keys, absent \in Keys :
        /\ Contains(dags[i], key)
        /\ ~Contains(dags[i], absent)
        /\ HasDependency(dags[i], key, absent)
        /\ Panicked(Index(dags[i], absent))
        /\ Index(dags[i], key) = Get(dags[i], key)

----------------------------------------------------------------------------
(* C25 *)

\* C25: dependency(from, to) called again right after dependency(from, to)
\* leaves graph, tips and roots as the first call left them, whichever of the
\* two keys are nodes of the graph.
C25_DependencyIdempotent ==
    [][DependencyStep =>
          DagDependency(dags'[last'.dag], last'.from, last'.to) = dags'[last'.dag]]_vars

\* dependency() has just recorded an edge between two different nodes of a
\* Dag that records another edge as well.
C25_Witness ==
    /\ last.op = "dependency"
    /\ last.from # last.to
    /\ BothRecorded(dags[last.dag], last.from, last.to)
    /\ \E k \in DOMAIN dags[last.dag].graph :
           dags[last.dag].graph[k].dependencies \ {last.to} # {}

----------------------------------------------------------------------------
(* C26 *)

\* The Dag that before becomes when the `from` half is applied if from is a
\* node and the `to` half if to is a node, and nothing else is touched.
HalvesApplied(before, from, to) ==
    [graph |-> [k \in DOMAIN before.graph |->
                   [value |-> before.graph[k].value,
                    dependencies |-> IF k = from
                                     THEN before.graph[k].dependencies \cup {to}
                                     ELSE before.graph[k].dependencies,
                    dependents |-> IF k = to
                                   THEN before.graph[k].dependents \cup {from}
                                   ELSE before.graph[k].dependents]],
     tips |-> IF to \in DOMAIN before.graph THEN before.tips \ {to} ELSE before.tips,
     roots |-> IF from \in DOMAIN before.graph THEN before.roots \ {from} ELSE before.roots]

\* C26: dependency(from, to) applies the `from` half when from is a node and
\* the `to` half when to is a node, each whether or not the other key is a
\* node, and changes nothing else; has_dependency(from, to) is true afterwards
\* exactly when from is a node. In tests::test_dependencies the edge is
\* reported from 0 to 1 and not from 1 to 0.
C26_HalvesIndependent ==
    [][DependencyStep =>
          LET before == dags[last'.dag]
              after == dags'[last'.dag]
              from == last'.from
              to == last'.to
          IN  /\ after = HalvesApplied(before, from, to)
              /\ \A j \in DagIds \ {last'.dag} : dags'[j] = dags[j]
              /\ HasDependency(after, from, to) <=> Contains(before, from)
              /\ HasDependency(TestDependencies, 0, 1)
              /\ ~HasDependency(TestDependencies, 1, 0)]_vars

\* dependency(from, to) has just acted with from a node and to not: the edge
\* is reported by has_dependency, from has left the roots, and no node records
\* from as a dependent.
C26_Witness ==
    /\ last.op = "dependency"
    /\ Contains(dags[last.dag], last.from)
    /\ ~Contains(dags[last.dag], last.to)
    /\ HasDependency(dags[last.dag], last.from, last.to)
    /\ last.from \notin dags[last.dag].roots
    /\ \A k \in DOMAIN dags[last.dag].graph : last.from \notin dags[last.dag].graph[k].dependents

----------------------------------------------------------------------------
(* C27 *)

\* a and b hold the same keys, and every key names the same dependencies in
\* both: has_dependency answers alike on the two.
SameNodesAndEdges(a, b) ==
    /\ DOMAIN a.graph = DOMAIN b.graph
    /\ \A k \in DOMAIN a.graph : a.graph[k].dependencies = b.graph[k].dependencies

\* C27: two Dags that came to hold the same keys and the same dependencies,
\* by whatever calls in whatever order, return the same sequence from sorted()
\* for every order sort_by(compare) leaves the keys in.
C27_SortedDeterministic ==
    SameNodesAndEdges(dags[1], dags[2]) =>
        \A keys \in KeyOrders(dags[1]) : Sorted(dags[1], keys) = Sorted(dags[2], keys)

\* Two Dags with the same keys and the same dependencies that were built by
\* different calls: their tips differ, and so do the dependents they record.
C27_Witness ==
    /\ SameNodesAndEdges(dags[1], dags[2])
    /\ DOMAIN dags[1].graph # {}
    /\ dags[1].tips # dags[2].tips
    /\ \E k \in DOMAIN dags[1].graph : dags[1].graph[k].dependents # dags[2].graph[k].dependents

----------------------------------------------------------------------------
(* C28 *)

\* C28: in a fold from any start key with any filter, once the filter has
\* returned Break for a node X, it is not called later in that fold on a
\* transitive dependent of X.
C28_NoCallAfterBreak ==
    \A i \in DagIds :
        LET d == dags[i] IN
        \A root \in GrowKeys, reject \in SUBSET DOMAIN d.graph :
            LET acc == Fold(d, root, reject) IN
            \A p \in 1 .. Len(acc), q \in 1 .. Len(acc) :
                (p < q /\ ~acc[p].accept)
                    => acc[q].key \notin TransitiveDependents(d, acc[p].key)

\* A fold in which the filter returns Break for a node X after an accepted
\* node has queued a dependent Y of X: Y is a dependent of a node called with
\* Continue before X, and the filter is never called on Y.
C28_Witness ==
    \E i \in DagIds :
        LET d == dags[i] IN
        \E reject \in SUBSET DOMAIN d.graph :
            LET acc == Fold(d, 0, reject) IN
            \E p \in 1 .. Len(acc), x \in 1 .. Len(acc) :
                /\ p < x
                /\ acc[p].accept
                /\ ~acc[x].accept
                /\ \E y \in d.graph[acc[p].key].dependents \cap d.graph[acc[x].key].dependents :
                       y \notin Range(FilterCalls(acc))

----------------------------------------------------------------------------
(* C29 *)

\* C29 as stated: in every History built from new_from_root by extend calls
\* with ids the history does not hold yet and merge calls with histories
\* built the same way from the same root entry, every key in a dependencies
\* or dependents set is a key of the graph, and b is in graph[a].dependencies
\* exactly when a is in graph[b].dependents.
C29_ClosedSymmetric ==
    \A r \in Pair :
        /\ Closed(hist[r].graph)
        /\ Symmetric(hist[r].graph)

\* C29 as amended: the same, for extend calls with ids that no history built
\* from the root entry holds at the time of the call.
C29_ClosedSymmetricFreshIds ==
    ops = 0 =>
        \A r \in Pair :
            /\ Closed(hist[r].graph)
            /\ Symmetric(hist[r].graph)

\* No id was given to two entries, and a history holds four entries or more,
\* one of them with two dependencies: it was extended after a merge.
C29_Witness ==
    /\ ops = 0
    /\ \E r \in Pair :
           /\ Cardinality(DOMAIN hist[r].graph.graph) >= 4
           /\ \E id \in DOMAIN hist[r].graph.graph :
                  Cardinality(hist[r].graph.graph[id].dependencies) >= 2

----------------------------------------------------------------------------
(* C30 *)

\* C30: in every History built from new_from_root by extend calls with fresh
\* ids (ids no replica has given to an entry) and merge calls with histories
\* of the same root entry, roots() yields the root and nothing else, the root
\* entry has no dependency, every entry is reachable from the root over
\* dependents, and
\* traverse with a callback that always continues is called on every entry.
C30_RootIsOnlyRoot ==
    \A r \in Pair :
        LET h == hist[r]
            d == hist[r].graph
        IN  /\ Contains(d, h.root)
            /\ RootKeys(d) = <<h.root>>
            /\ d.graph[h.root].dependencies = {}
            /\ DOMAIN d.graph \subseteq {h.root} \cup DependentsClosure(d, {h.root})
            /\ Range(FilterCalls(HistTraverse(h, {}))) = DOMAIN d.graph

\* A history of four entries after a merge: two entries depend on the root and
\* a later entry on both of them.
C30_Witness ==
    \E r \in Pair :
        LET d == hist[r].graph IN
        /\ Cardinality(DOMAIN d.graph) = 4
        /\ Cardinality(d.graph[hist[r].root].dependents) = 2
        /\ \E k \in DOMAIN d.graph : d.graph[k].dependencies = d.graph[hist[r].root].dependents
        /\ Len(HistTraverse(hist[r], {})) = 4

----------------------------------------------------------------------------
(* C31 *)

\* C31: in every History built from new_from_root by extend calls with fresh
\* ids and merge calls with histories of the same root entry, tips() is not
\* empty and clock() is 1 or more: the default 0 of clock() is never returned.
C31_TipsNeverEmpty ==
    \A r \in Pair :
        /\ HistTips(hist[r]) # {}
        /\ HistClock(hist[r]) >= 1

\* A history that has merged another one and was not extended since: it has
\* two tips or more, and clock() is 3 or more.
C31_Witness ==
    \E r \in Pair :
        /\ Cardinality(HistTips(hist[r])) >= 2
        /\ HistClock(hist[r]) >= 3

----------------------------------------------------------------------------
(* C32 *)

\* The clock of the entry of id k in the history h.
ClockOf(h, k) == h.graph.graph[k].value.clock

\* C32: in every History built from new_from_root by extend calls with fresh
\* ids and merge calls with histories built the same way, an entry that depends
\* on another has the greater clock of the two, and clock(), the maximum over
\* the tips, is the maximum clock over all entries.
C32_ClockLamport ==
    \A r \in Pair :
        LET h == hist[r]
            g == hist[r].graph.graph
        IN  /\ \A a \in DOMAIN g : \A b \in g[a].dependencies :
                   /\ b \in DOMAIN g
                   /\ ClockOf(h, a) > ClockOf(h, b)
            /\ HistClock(h) = Max({ClockOf(h, k) : k \in DOMAIN g})

\* A history of four entries or more with two tips of different clocks: the
\* maximum is taken over tips that are not all at the greatest clock.
C32_Witness ==
    \E r \in Pair :
        LET h == hist[r] IN
        /\ Cardinality(DOMAIN h.graph.graph) >= 4
        /\ \E t \in HistTips(h), u \in HistTips(h) : ClockOf(h, t) < ClockOf(h, u)

----------------------------------------------------------------------------
(* C33 *)

\* C33: no extend and no merge lowers clock() of a replica, and after
\* self.merge(other) clock() is the greater of the clock() of self and the
\* clock() of other before the call.
C33_ClockMonotone ==
    [][/\ \A r \in Pair : HistClock(hist'[r]) >= HistClock(hist[r])
       /\ last'.op = "merge" =>
              \A r \in Pair, s \in Pair :
                  (r # s /\ hist'[r] = HistMerge(hist[r], hist[s]) /\ hist'[s] = hist[s]) =>
                      HistClock(hist'[r]) = Max({HistClock(hist[r]), HistClock(hist[s])})]_vars

\* A merge has just acted, and the replica r that holds all of s and more has a
\* tip of its own below clock(), while its tip of greatest clock came from s:
\* the merge raised clock() of r to that of s.
C33_Witness ==
    /\ last.op = "merge"
    /\ \E r \in Pair, s \in Pair :
           /\ DOMAIN hist[s].graph.graph \subseteq DOMAIN hist[r].graph.graph
           /\ HistClock(hist[r]) = HistClock(hist[s])
           /\ \E t \in HistTips(hist[r]) :
                  /\ t \notin DOMAIN hist[s].graph.graph
                  /\ ClockOf(hist[r], t) < HistClock(hist[r])

----------------------------------------------------------------------------
(* C34 *)

\* An extend of SpecOwn has just acted.
ExtendStep == last'.op = "extend"

\* C34: extend(new_id) with an id the history does not hold leaves the root
\* field, the value and the dependencies of every entry it held, and the
\* dependents of every entry that was not a tip as they were; it adds the one
\* entry new_id, which depends on the former tips and has no dependent, and
\* adds new_id to the dependents of each former tip; the other replicas are
\* left alone.
C34_ExtendFrame ==
    [][ExtendStep =>
          LET before == hist[last'.replica]
              after == hist'[last'.replica]
              g == hist[last'.replica].graph.graph
              g2 == hist'[last'.replica].graph.graph
              new_id == last'.id
              tips == HistTips(hist[last'.replica])
          IN  /\ new_id \notin DOMAIN g
              /\ after.root = before.root
              /\ DOMAIN g2 = DOMAIN g \cup {new_id}
              /\ \A k \in DOMAIN g :
                     /\ g2[k].value = g[k].value
                     /\ g2[k].dependencies = g[k].dependencies
                     /\ g2[k].dependents =
                            IF k \in tips THEN g[k].dependents \cup {new_id} ELSE g[k].dependents
              /\ g2[new_id].value.id = new_id
              /\ g2[new_id].dependencies = tips
              /\ g2[new_id].dependents = {}
              /\ \A s \in Replicas \ {last'.replica} : hist'[s] = hist[s]]_vars

\* extend has just acted on a history that had two tips and an entry that was
\* not a tip: the new entry depends on both tips.
C34_Witness ==
    /\ last.op = "extend"
    /\ Cardinality(last.tips) >= 2
    /\ Cardinality(DOMAIN hist[last.replica].graph.graph) >= 5
    /\ hist[last.replica].graph.graph[last.id].dependencies = last.tips

----------------------------------------------------------------------------
(* C35 *)

\* This step is a call of merge().
MergeStep == ops' = ops + 1 /\ last'.op = "merge"

\* The nodes of other that merge reaches: its smallest root and the nodes
\* reachable from it over dependents.
Reached(other) ==
    LET root == Min(ZeroDependencies(other))
    IN  ({root} \cup DependentsClosure(other, {root})) \cap DOMAIN other.graph

\* C35: self.merge(other) leaves self unchanged when other has no root, which
\* is when other is empty or every node of other has a dependency; otherwise
\* it starts from the smallest root of other, and the nodes of self are then
\* those it had and the nodes of other reachable from that root over
\* dependents: a node it inserts has the value other gave it, and no node of
\* other that is not reachable from that root is added.
C35_MergeFromOneRoot ==
    [][MergeStep =>
          LET self == dags[last'.dag]
              other == dags[last'.other]
              after == dags'[last'.dag]
          IN  /\ RootKeys(other) = <<>> <=> ZeroDependencies(other) = {}
              /\ ZeroDependencies(other) = {} => after = self
              /\ ZeroDependencies(other) # {} =>
                     /\ Head(RootKeys(other)) = Min(ZeroDependencies(other))
                     /\ DOMAIN after.graph = DOMAIN self.graph \cup Reached(other)
                     /\ \A k \in Reached(other) \ DOMAIN self.graph :
                            after.graph[k].value = other.graph[k].value
                     /\ \A k \in DOMAIN self.graph :
                            after.graph[k].value = self.graph[k].value
                     /\ \A k \in DOMAIN other.graph \ (Reached(other) \cup DOMAIN self.graph) :
                            k \notin DOMAIN after.graph]_vars

\* merge has just imported the smallest root of the other Dag, which holds a
\* node that is not reachable from that root: self still lacks it.
C35_Witness ==
    /\ last.op = "merge"
    /\ last.dag # last.other
    /\ RootKeys(dags[last.other]) # <<>>
    /\ Head(RootKeys(dags[last.other])) \in DOMAIN dags[last.dag].graph
    /\ DOMAIN dags[last.other].graph \ DOMAIN dags[last.dag].graph # {}

----------------------------------------------------------------------------
(* C36 *)

\* The nodes of d at exactly n + 1 dependents edges from the node, by the
\* shortest path through nodes of d.
Generation(d, node, n) == AtDistance(d, {}, node.dependents \cap DOMAIN d.graph, n)

\* The n for which key is in Generation(d, node, n).
GenerationOf(d, node, key) ==
    Min({n \in 0 .. Cardinality(DOMAIN d.graph) : key \in Generation(d, node, n)})

\* The position in nodes of the first key that has key as a dependent.
FirstLister(d, nodes, key) ==
    Min({p \in 1 .. Len(nodes) : key \in d.graph[nodes[p]].dependents})

\* nodes lists, once each, the nodes of d reachable from node over one or more
\* dependents edges, in breadth-first discovery order: nearer nodes first; of
\* two equally near, the one listed by the earlier node, and the smaller key
\* when one node lists both.
DiscoveryOrder(d, node, nodes) ==
    /\ NoRepeat(nodes)
    /\ Range(nodes) = DependentsClosure(d, node.dependents) \cap DOMAIN d.graph
    /\ \A i \in 1 .. Len(nodes), j \in 1 .. Len(nodes) :
           i < j =>
               LET gi == GenerationOf(d, node, nodes[i])
                   gj == GenerationOf(d, node, nodes[j])
               IN  /\ gi <= gj
                   /\ (gi = gj /\ gi = 0) => nodes[i] < nodes[j]
                   /\ (gi = gj /\ gi > 0) =>
                          /\ FirstLister(d, nodes, nodes[i]) <= FirstLister(d, nodes, nodes[j])
                          /\ FirstLister(d, nodes, nodes[i]) = FirstLister(d, nodes, nodes[j])
                                 => nodes[i] < nodes[j]

\* C36: after every call on a Dag, for every node of that Dag,
\* descendants_of(node) returns, once each and in breadth-first discovery
\* order, the keys of the graph reachable from node over one or more dependents
\* edges through nodes of the graph, on graphs with cycles and dangling edges
\* too; for A1 of tests::test_fold_reject it returns [B1, C1, D1].
C36_DescendantsOf ==
    [][/\ LET d == dags'[last'.dag] IN
          \A k \in DOMAIN d.graph :
              DiscoveryOrder(d, d.graph[k], DescendantsOf(d, d.graph[k]))
       /\ last = NoOp =>
              /\ DescendantsOf(TestFoldReject, TestFoldReject.graph[0]) = <<2, 3, 4>>
              /\ \A k \in DOMAIN TestFoldReject.graph :
                     DiscoveryOrder(TestFoldReject, TestFoldReject.graph[k],
                                    DescendantsOf(TestFoldReject, TestFoldReject.graph[k]))
              /\ \A k \in DOMAIN TestComplex.graph :
                     DiscoveryOrder(TestComplex, TestComplex.graph[k],
                                    DescendantsOf(TestComplex, TestComplex.graph[k]))]_vars

\* A node on a cycle with two descendants or more: it is among its own
\* descendants.
C36_Witness ==
    \E i \in DagIds : \E k \in DOMAIN dags[i].graph :
        LET nodes == DescendantsOf(dags[i], dags[i].graph[k]) IN
        /\ Len(nodes) >= 2
        /\ k \in Range(nodes)

====
